---- MODULE Spec2Model ----
(***************************************************************************)
(* Authentication / authorization flow of the NestJS to-do-list project:   *)
(* AuthService.register, AuthService.login, JwtStrategy (constructor and   *)
(* validate), RolesGuard.canActivate, over the Users table of the Prisma   *)
(* schema.  Every request is a process; an await on the store, the hasher  *)
(* or the signer ends an atomic step, so concurrent requests interleave at *)
(* the awaits as they do on the Node event loop.                           *)
(***************************************************************************)
EXTENDS Integers, Sequences, FiniteSets, TLC

(* ------------------------------ bounds -------------------------------- *)
\* Highest AUTO_INCREMENT value the Users table hands out.
MaxId == 2
\* Last instant of the clock.
MaxTime == 1
\* Number of tokens Login issues in one behaviour.
MaxTokens == 1

\* Concurrent requests in flight.
Procs == {"r1", "r2"}

\* Request bodies of POST /auth/register.
RegisterDtos ==
    { [name |-> "Jane", email |-> "jane@x.com", password |-> "secret12"],
      [name |-> "Bob", email |-> "bob@x.com", password |-> "hunter22"] }

\* Request bodies of POST /auth/login.
LoginDtos ==
    { [name |-> "", email |-> e, password |-> pw] :
        e \in {"jane@x.com", "bob@x.com"}, pw \in {"secret12", "hunter22"} }

Passwords == {d.password : d \in RegisterDtos \cup LoginDtos}

\* Salts bcrypt may draw.
Salts == {"N9qo8uLOickgx2ZMRZoMye", "abcdefghijklmnopqrstuu"}

\* The value config.get yields for a key that is not set.
UNDEFINED == "undefined"

\* The .env of a correct deployment, and one without JWT_SECRET.
Env == [JWT_SECRET |-> "your_secret_key", JWT_EXPIRES_IN |-> 1]
Configs == {Env, [Env EXCEPT !.JWT_SECRET = UNDEFINED]}

\* A secret the server never had.
ForeignSecret == "not_the_secret"

(* ------------------------------ state --------------------------------- *)
VARIABLES
    phase,      \* "boot", "serving" or "crashed"
    config,     \* ConfigService: the environment read at start-up
    users,      \* rows of the Users table
    nextId,     \* AUTO_INCREMENT counter of Users.Id
    now,        \* the clock jsonwebtoken reads
    issued,     \* tokens Login has returned, each with the Id it was issued to
    plain,      \* history: the password each Id was registered with
    req         \* per request: operation, position and local variables

vars == <<phase, config, users, nextId, now, issued, plain, req>>

EmptyDto == [name |-> "", email |-> "", password |-> ""]
NoResult == [type |-> "none", exception |-> "", message |-> ""]
NoRoles == [defined |-> FALSE, list |-> <<>>]

Idle ==
    [op |-> "none", pc |-> "idle", dto |-> EmptyDto, existingUser |-> {},
     hashedPassword |-> "", token |-> {}, user |-> {}, roles |-> NoRoles,
     result |-> NoResult, body |-> {}]

\* The handler returned normally.
Return == [type |-> "return", exception |-> "", message |-> ""]
\* An exception left the handler.
Throw(exception, message) ==
    [type |-> "throw", exception |-> exception, message |-> message]

BadRequestException(message) == Throw("BadRequestException", message)

(* --------------------------- collaborators ---------------------------- *)
\* enum Role and the column default of Users.role.
Role == {"admin", "user"}
DefaultRole == "user"

\* prisma.users.findUnique({ where: { email } })
checkExistingUser(email) == {u \in users : u.email = email}

\* prisma.users.findUnique({ where: { Id } })
findUniqueById(id) == {u \in users : u.Id = id}

\* Default of hashPassword's second parameter (the bcrypt cost).
SaltRounds == "10"

\* bcrypt.hash with a given salt: "$2b$<cost>$<salt><digest>".  The digest is
\* an injective function of cost, salt and password; it is written as the term
\* over its three arguments, which the model only ever compares for equality.
BcryptHash(password, rounds, salt) ==
    "$2b$" \o rounds \o "$" \o salt \o "#" \o password

\* hashPassword that hands the plaintext back.
hashPassword_Plain(password, salt) == password

hashPassword(password, salt) == BcryptHash(password, SaltRounds, salt)

\* bcrypt.compare: re-hash the candidate with the cost and salt of the stored
\* value and compare the results.
validatePassword(password, hashedPassword) ==
    \E s \in Salts : BcryptHash(password, SaltRounds, s) = hashedPassword

\* generateToken given user.id, a field the Users rows do not have, as subject.
generateToken_NoSubject(payload) ==
    [sub |-> 0, email |-> payload.email, iat |-> now,
     exp |-> now + config.JWT_EXPIRES_IN, sig |-> config.JWT_SECRET]

\* jwt.signAsync(payload, { expiresIn, secret })
generateToken(payload) ==
    [sub |-> payload.sub, email |-> payload.email, iat |-> now,
     exp |-> now + config.JWT_EXPIRES_IN, sig |-> config.JWT_SECRET]

Tokens == {i.token : i \in issued}

\* A token signed by somebody else, for the subject and email of an issued one.
Forged(t) == [t EXCEPT !.sig = ForeignSecret]

(* ------------------------------ start-up ------------------------------ *)
Init ==
    /\ phase = "boot"
    /\ config \in Configs
    /\ users = {}
    /\ nextId = 1
    /\ now = 0
    /\ issued = {}
    /\ plain = {}
    /\ req = [p \in Procs |-> Idle]

\* !jwtSecret
Falsy(v) == v \in {UNDEFINED, ""}

\* JwtStrategy options that switch the expiry check off.
JwtStrategyOptions_IgnoreExpiration ==
    [secretOrKey |-> config.JWT_SECRET, ignoreExpiration |-> TRUE]

\* Options JwtStrategy hands to passport-jwt; ignoreExpiration is not passed
\* and passport-jwt reads it as !!options.ignoreExpiration.
JwtStrategyOptions ==
    [secretOrKey |-> config.JWT_SECRET, ignoreExpiration |-> FALSE]

\* The constructor without the check of jwtSecret.
Bootstrap_NoCheck ==
    /\ phase = "boot"
    /\ phase' = "serving"
    /\ UNCHANGED <<config, users, nextId, now, issued, plain, req>>

\* JwtStrategy.constructor, run once when the module is instantiated.
Bootstrap ==
    /\ phase = "boot"
    /\ phase' = IF Falsy(config.JWT_SECRET) THEN "crashed" ELSE "serving"
    /\ UNCHANGED <<config, users, nextId, now, issued, plain, req>>

(* ------------------------------ register ------------------------------ *)
InFlightCreates == Cardinality({q \in Procs : req[q].pc \in {"reg_hash", "reg_create"}})

\* RegisterFind without the check of existingUser.
RegisterFind_NoCheck(p) ==
    /\ phase = "serving"
    /\ req[p].pc = "idle"
    /\ nextId + InFlightCreates <= MaxId
    /\ \E dto \in RegisterDtos :
         req' = [req EXCEPT ![p] =
                   [Idle EXCEPT !.op = "register", !.pc = "reg_hash", !.dto = dto]]
    /\ UNCHANGED <<phase, config, users, nextId, now, issued, plain>>

\* register(dto), lines 35-40: look the email up, refuse when it is taken.
register(p, dto) ==
    /\ phase = "serving"
    /\ req[p].pc = "idle"
    /\ nextId + InFlightCreates <= MaxId
    /\ LET existingUser == checkExistingUser(dto.email) IN
       req' = [req EXCEPT ![p] =
                 IF existingUser # {}
                 THEN [Idle EXCEPT !.op = "register", !.pc = "done",
                          !.dto = dto, !.existingUser = existingUser,
                          !.result = BadRequestException("User already exists")]
                 ELSE [Idle EXCEPT !.op = "register", !.pc = "reg_hash",
                          !.dto = dto]]
    /\ UNCHANGED <<phase, config, users, nextId, now, issued, plain>>

\* POST /auth/register with a body that satisfies RegisterDto.
RegisterFind(p) == \E dto \in RegisterDtos : register(p, dto)

\* register, line 42: hash the password with a fresh salt.
RegisterHash(p) ==
    /\ req[p].pc = "reg_hash"
    /\ \E salt \in Salts :
         req' = [req EXCEPT ![p].pc = "reg_create",
                            ![p].hashedPassword = hashPassword(req[p].dto.password, salt)]
    /\ UNCHANGED <<phase, config, users, nextId, now, issued, plain>>

\* NewUser with the wrong column default for role.
NewUser_AdminDefault(data) ==
    [Id |-> nextId, name |-> data.name, email |-> data.email,
     password |-> data.password, phone_number |-> "NULL", role |-> "admin"]

\* The row prisma.users.create inserts: the data given, the AUTO_INCREMENT Id
\* and the column defaults.  createdAt and updatedAt are left out: nothing in
\* the flow reads them.
NewUser(data) ==
    [Id |-> nextId, name |-> data.name, email |-> data.email,
     password |-> data.password, phone_number |-> "NULL", role |-> DefaultRole]

\* The Users table without the unique index on email.
EmailTaken_NoIndex(email) == FALSE

\* UNIQUE INDEX Users_email_key
EmailTaken(email) == \E u \in users : u.email = email

\* register, lines 44-52: insert the row and acknowledge; the insert fails on
\* the unique index when a concurrent request took the email.
RegisterCreate(p) ==
    /\ req[p].pc = "reg_create"
    /\ LET data == [email |-> req[p].dto.email, name |-> req[p].dto.name,
                    password |-> req[p].hashedPassword]
           user == NewUser(data)
       IN IF EmailTaken(data.email)
          THEN /\ req' = [req EXCEPT ![p].pc = "done",
                            ![p].result = Throw("PrismaClientKnownRequestError",
                                                "Unique constraint failed")]
               /\ UNCHANGED <<users, nextId, plain>>
          ELSE /\ users' = users \cup {user}
               /\ plain' = plain \cup {[Id |-> user.Id, password |-> req[p].dto.password]}
               /\ nextId' = nextId + 1
               /\ req' = [req EXCEPT ![p].pc = "done",
                            ![p].result = Return,
                            ![p].body = {[success |-> TRUE,
                                          message |-> "User registered successfully",
                                          user |-> [id |-> user.Id, email |-> user.email]]}]
    /\ UNCHANGED <<phase, config, now, issued>>

(* ------------------------------- login -------------------------------- *)
\* LoginFind that tells the caller the email is unknown.
LoginFind_UserNotFound(p) ==
    /\ phase = "serving"
    /\ req[p].pc = "idle"
    /\ \E dto \in LoginDtos :
         LET existingUser == checkExistingUser(dto.email) IN
         req' = [req EXCEPT ![p] =
                   IF existingUser = {}
                   THEN [Idle EXCEPT !.op = "login", !.pc = "done", !.dto = dto,
                            !.result = BadRequestException("User not found")]
                   ELSE [Idle EXCEPT !.op = "login", !.pc = "login_compare",
                            !.dto = dto, !.existingUser = existingUser]]
    /\ UNCHANGED <<phase, config, users, nextId, now, issued, plain>>

\* login, lines 56-61.
LoginFind(p) ==
    /\ phase = "serving"
    /\ req[p].pc = "idle"
    /\ \E dto \in LoginDtos :
         LET existingUser == checkExistingUser(dto.email) IN
         req' = [req EXCEPT ![p] =
                   IF existingUser = {}
                   THEN [Idle EXCEPT !.op = "login", !.pc = "done", !.dto = dto,
                            !.result = BadRequestException("Invalid credentials")]
                   ELSE [Idle EXCEPT !.op = "login", !.pc = "login_compare",
                            !.dto = dto, !.existingUser = existingUser]]
    /\ UNCHANGED <<phase, config, users, nextId, now, issued, plain>>

\* LoginCompare that ignores the result of validatePassword.
LoginCompare_NoCheck(p) ==
    /\ req[p].pc = "login_compare"
    /\ req' = [req EXCEPT ![p].pc = "login_sign"]
    /\ UNCHANGED <<phase, config, users, nextId, now, issued, plain>>

\* login, lines 63-66.
LoginCompare(p) ==
    /\ req[p].pc = "login_compare"
    /\ LET existingUser == CHOOSE u \in req[p].existingUser : TRUE
           isPasswordValid == validatePassword(req[p].dto.password, existingUser.password)
       IN req' = [req EXCEPT ![p] =
                    IF ~isPasswordValid
                    THEN [@ EXCEPT !.pc = "done",
                            !.result = BadRequestException("Invalid credentials")]
                    ELSE [@ EXCEPT !.pc = "login_sign"]]
    /\ UNCHANGED <<phase, config, users, nextId, now, issued, plain>>

\* login that stores a fresh hash of the password in the row before it signs.
LoginSign_Rehash(p) ==
    /\ req[p].pc = "login_sign"
    /\ LET existingUser == CHOOSE u \in req[p].existingUser : TRUE
           token == generateToken([sub |-> existingUser.Id, email |-> existingUser.email])
       IN /\ Cardinality(issued \cup {[token |-> token, user |-> existingUser.Id]}) <= MaxTokens
          /\ issued' = issued \cup {[token |-> token, user |-> existingUser.Id]}
          /\ \E salt \in Salts :
               users' = {IF u.Id = existingUser.Id
                         THEN [u EXCEPT !.password = hashPassword(req[p].dto.password, salt)]
                         ELSE u : u \in users}
          /\ req' = [req EXCEPT ![p].pc = "done", ![p].result = Return,
                                ![p].token = {token},
                                ![p].body = {[access_token |-> token]}]
    /\ UNCHANGED <<phase, config, nextId, now, plain>>

\* login, lines 68-75.
LoginSign(p) ==
    /\ req[p].pc = "login_sign"
    /\ LET existingUser == CHOOSE u \in req[p].existingUser : TRUE
           token == generateToken([sub |-> existingUser.Id, email |-> existingUser.email])
       IN /\ Cardinality(issued \cup {[token |-> token, user |-> existingUser.Id]}) <= MaxTokens
          /\ issued' = issued \cup {[token |-> token, user |-> existingUser.Id]}
          /\ req' = [req EXCEPT ![p].pc = "done", ![p].result = Return,
                                ![p].token = {token},
                                ![p].body = {[access_token |-> token]}]
    /\ UNCHANGED <<phase, config, users, nextId, now, plain>>

(* -------------------------- protected route -------------------------- *)
\* jsonwebtoken.verify as passport-jwt calls it: the signature must be made
\* with secretOrKey and, unless ignoreExpiration, the clock must be before exp.
VerifyJwt(token, options) ==
    /\ token.sig = options.secretOrKey
    /\ options.ignoreExpiration \/ now < token.exp

\* What a client can put in the Authorization header.
Bearer == Tokens \cup {Forged(t) : t \in Tokens}

\* AuthGuard('jwt'): passport-jwt verifies the bearer token with the options
\* of JwtStrategy and hands the payload to validate; a token that does not
\* verify is answered with UnauthorizedException.
Authenticate(p) ==
    /\ phase = "serving"
    /\ req[p].pc = "idle"
    /\ \E token \in Bearer :
         req' = [req EXCEPT ![p] =
                   IF VerifyJwt(token, JwtStrategyOptions)
                   THEN [Idle EXCEPT !.op = "route", !.pc = "validate",
                            !.token = {token}]
                   ELSE [Idle EXCEPT !.op = "route", !.pc = "done",
                            !.token = {token},
                            !.result = Throw("UnauthorizedException", "Unauthorized")]]
    /\ UNCHANGED <<phase, config, users, nextId, now, issued, plain>>

\* The object validate returns, which passport stores as request.user.
Identity(user) ==
    [userId |-> user.Id, name |-> user.name, email |-> user.email,
     role |-> user.role]

\* validate that trusts the payload and does not look the user up.
validate_TrustPayload(p) ==
    /\ req[p].pc = "validate"
    /\ LET payload == CHOOSE t \in req[p].token : TRUE
       IN req' = [req EXCEPT ![p].pc = "roles",
                    ![p].user = {[userId |-> payload.sub, name |-> "",
                                  email |-> payload.email, role |-> "user"]}]
    /\ UNCHANGED <<phase, config, users, nextId, now, issued, plain>>

\* validate that looks the user up by the email of the payload.
validate_ByEmail(p) ==
    /\ req[p].pc = "validate"
    /\ LET payload == CHOOSE t \in req[p].token : TRUE
           user == checkExistingUser(payload.email)
       IN req' = [req EXCEPT ![p] =
                    IF user = {}
                    THEN [@ EXCEPT !.pc = "done",
                            !.result = Throw("Error", "Unauthorized")]
                    ELSE [@ EXCEPT !.pc = "roles",
                            !.user = {Identity(u) : u \in user}]]
    /\ UNCHANGED <<phase, config, users, nextId, now, issued, plain>>

\* validate that looks the user up but returns the email of the payload.
validate_PayloadEmail(p) ==
    /\ req[p].pc = "validate"
    /\ LET payload == CHOOSE t \in req[p].token : TRUE
           user == findUniqueById(payload.sub)
       IN req' = [req EXCEPT ![p] =
                    IF user = {}
                    THEN [@ EXCEPT !.pc = "done",
                            !.result = Throw("Error", "Unauthorized")]
                    ELSE [@ EXCEPT !.pc = "roles",
                            !.user = {[Identity(u) EXCEPT !.email = payload.email]
                                        : u \in user}]]
    /\ UNCHANGED <<phase, config, users, nextId, now, issued, plain>>

\* JwtStrategy.validate
validate(p) ==
    /\ req[p].pc = "validate"
    /\ LET payload == CHOOSE t \in req[p].token : TRUE
           user == findUniqueById(payload.sub)
       IN req' = [req EXCEPT ![p] =
                    IF user = {}
                    THEN [@ EXCEPT !.pc = "done",
                            !.result = Throw("Error", "Unauthorized")]
                    ELSE [@ EXCEPT !.pc = "roles",
                            !.user = {Identity(u) : u \in user}]]
    /\ UNCHANGED <<phase, config, users, nextId, now, issued, plain>>

\* @Roles(...roles): SetMetadata("roles", roles)
Roles(roles) == [defined |-> TRUE, list |-> roles]

\* reflector.get("roles", handler) for the handlers of the application: one
\* without @Roles, and handlers decorated with each list of roles.
HandlerRoles ==
    {NoRoles, Roles(<<>>), Roles(<<"admin">>), Roles(<<"user">>)}

\* roles.includes(role)
Includes(list, role) == \E i \in 1..Len(list) : list[i] = role

\* RolesGuard.canActivate
canActivate(roles, user) ==
    IF ~roles.defined THEN TRUE ELSE Includes(roles.list, user.role)

\* The RolesGuard of the route runs after AuthGuard('jwt'); Nest answers a
\* guard that returns false with ForbiddenException.
RolesGuard(p) ==
    /\ req[p].pc = "roles"
    /\ \E roles \in HandlerRoles :
         LET user == CHOOSE u \in req[p].user : TRUE IN
         req' = [req EXCEPT ![p].pc = "done", ![p].roles = roles,
                   ![p].result = IF canActivate(roles, user) THEN Return
                                 ELSE Throw("ForbiddenException", "Forbidden resource")]
    /\ UNCHANGED <<phase, config, users, nextId, now, issued, plain>>

(* --------------------------- user management -------------------------- *)
\* Bodies of PATCH /users/:id.
UpdateDtos == {[role |-> r] : r \in Role}

\* UserService.update: prisma update of one row by id.
update(id, updateUserDto) ==
    /\ phase = "serving"
    /\ \E u \in users :
         /\ u.Id = id
         /\ LET row == [u EXCEPT
                          !.role = IF "role" \in DOMAIN updateUserDto
                                   THEN updateUserDto.role ELSE @,
                          !.email = IF "email" \in DOMAIN updateUserDto
                                    THEN updateUserDto.email ELSE @]
            IN /\ row # u
               /\ ~\E v \in users \ {u} : v.email = row.email
               /\ users' = (users \ {u}) \cup {row}
    /\ UNCHANGED <<phase, config, nextId, now, issued, plain, req>>

\* UserService.remove: prisma delete of one row by id.
remove(id) ==
    /\ phase = "serving"
    /\ \E u \in users : u.Id = id
    /\ users' = {u \in users : u.Id # id}
    /\ UNCHANGED <<phase, config, nextId, now, issued, plain, req>>

(* --------------------------- environment ------------------------------ *)
\* The response is sent; the request's locals are gone.
Respond(p) ==
    /\ req[p].pc = "done"
    /\ req' = [req EXCEPT ![p] = Idle]
    /\ UNCHANGED <<phase, config, users, nextId, now, issued, plain>>

Tick ==
    /\ phase = "serving"
    /\ now < MaxTime
    /\ now' = now + 1
    /\ UNCHANGED <<phase, config, users, nextId, issued, plain, req>>

Next ==
    \/ Bootstrap
    \/ Tick
    \/ \E p \in Procs : RegisterFind(p)
    \/ \E p \in Procs : RegisterHash(p)
    \/ \E p \in Procs : RegisterCreate(p)
    \/ \E p \in Procs : LoginFind(p)
    \/ \E p \in Procs : LoginCompare(p)
    \/ \E p \in Procs : LoginSign(p)
    \/ \E p \in Procs : Authenticate(p)
    \/ \E p \in Procs : validate(p)
    \/ \E p \in Procs : RolesGuard(p)
    \/ \E id \in 1..MaxId, dto \in UpdateDtos : update(id, dto)
    \/ \E id \in 1..MaxId : remove(id)
    \/ \E p \in Procs : Respond(p)

Spec == Init /\ [][Next]_vars

(* ------------------------------ profile ------------------------------- *)
\* Updates of one column of a row: the role, or the email.
ProfileDtos == UpdateDtos \cup {[email |-> "bob@x.com"]}

NextProfile ==
    \/ Bootstrap
    \/ Tick
    \/ \E p \in Procs : RegisterFind(p)
    \/ \E p \in Procs : RegisterHash(p)
    \/ \E p \in Procs : RegisterCreate(p)
    \/ \E p \in Procs : LoginFind(p)
    \/ \E p \in Procs : LoginCompare(p)
    \/ \E p \in Procs : LoginSign(p)
    \/ \E p \in Procs : Authenticate(p)
    \/ \E p \in Procs : validate(p)
    \/ \E p \in Procs : RolesGuard(p)
    \/ \E id \in 1..MaxId, dto \in ProfileDtos : update(id, dto)
    \/ \E id \in 1..MaxId : remove(id)
    \/ \E p \in Procs : Respond(p)

\* The application with updates of the email column as well as of the role.
SpecProfile == Init /\ [][NextProfile]_vars

(* ----------------------------- validation ----------------------------- *)
\* Bodies a client can post to /auth/register, well-formed or not: the
\* passwords have 6, 7, 8, 25 and 26 characters.
RegisterBodies ==
    RegisterDtos \cup
    { [name |-> "", email |-> "jane@x.com", password |-> "secret12"],
      [name |-> "Jane", email |-> "jane.x.com", password |-> "secret12"],
      [name |-> "Jane", email |-> "", password |-> "secret12"],
      [name |-> "Jane", email |-> "jane@x.com", password |-> "secret"],
      [name |-> "Jane", email |-> "jane@x.com", password |-> "secret1"],
      [name |-> "Bob", email |-> "bob@x.com", password |-> "abcdefghijklmnopqrstuvwxy"],
      [name |-> "Bob", email |-> "bob@x.com", password |-> "abcdefghijklmnopqrstuvwxyz"],
      [name |-> "", email |-> "bob", password |-> ""] }

\* @IsEmail on the strings of RegisterBodies: those of the form local@domain.tld.
IsEmail(value) == value \in {"jane@x.com", "bob@x.com"}

\* @IsNotEmpty
IsNotEmpty(value) == value # ""

\* @Length(min, max)
Length(value, min, max) == Len(value) >= min /\ Len(value) <= max

\* RegisterDto with @Length(7) on password, no upper limit.
RegisterDtoErrors_NoMax(body) ==
    {property \in {"name", "email", "password"} :
        \/ property = "name" /\ ~IsNotEmpty(body.name)
        \/ property = "email" /\ ~(IsEmail(body.email) /\ IsNotEmpty(body.email))
        \/ property = "password"
           /\ ~(IsNotEmpty(body.password) /\ Len(body.password) >= 7)}

\* The properties of a body that break a decorator of RegisterDto.
RegisterDtoErrors(body) ==
    {property \in {"name", "email", "password"} :
        \/ property = "name" /\ ~IsNotEmpty(body.name)
        \/ property = "email" /\ ~(IsEmail(body.email) /\ IsNotEmpty(body.email))
        \/ property = "password"
           /\ ~(IsNotEmpty(body.password) /\ Length(body.password, 7, 25))}

\* POST /auth/register behind the global ValidationPipe: a body that breaks
\* RegisterDto is answered with BadRequestException and register is not
\* called; any other body is handed to register.
PostRegister(p) ==
    \E body \in RegisterBodies :
        IF RegisterDtoErrors(body) # {}
        THEN /\ phase = "serving"
             /\ req[p].pc = "idle"
             /\ req' = [req EXCEPT ![p] =
                          [Idle EXCEPT !.op = "register", !.pc = "done",
                             !.dto = body,
                             !.result = BadRequestException("Bad Request"),
                             !.body = {[errors |-> RegisterDtoErrors(body)]}]]
             /\ UNCHANGED <<phase, config, users, nextId, now, issued, plain>>
        ELSE register(p, body)

NextValidation ==
    \/ Bootstrap
    \/ \E p \in Procs : PostRegister(p)
    \/ \E p \in Procs : RegisterHash(p)
    \/ \E p \in Procs : RegisterCreate(p)
    \/ \E id \in 1..MaxId : remove(id)
    \/ \E p \in Procs : Respond(p)

\* The registration endpoint alone, fed with arbitrary bodies.
SpecValidation == Init /\ [][NextValidation]_vars

(* ------------------------------- faults ------------------------------- *)
\* What a rejected prisma call throws, and what a rejected bcrypt call throws.
StoreError == Throw("PrismaClientInitializationError", "Can't reach database server")
HasherError == Throw("Error", "bcrypt failed")

\* register, line 36: the look-up rejects; nothing catches it.
RegisterFindFails(p) ==
    /\ phase = "serving"
    /\ req[p].pc = "idle"
    /\ \E dto \in RegisterDtos :
         req' = [req EXCEPT ![p] = [Idle EXCEPT !.op = "register", !.pc = "done",
                                      !.dto = dto, !.result = StoreError]]
    /\ UNCHANGED <<phase, config, users, nextId, now, issued, plain>>

\* register, line 42: bcrypt.hash rejects; nothing catches it.
RegisterHashFails(p) ==
    /\ req[p].pc = "reg_hash"
    /\ req' = [req EXCEPT ![p].pc = "done", ![p].result = HasherError]
    /\ UNCHANGED <<phase, config, users, nextId, now, issued, plain>>

\* register with the insert in a try whose catch answers as if it had worked.
RegisterCreateFails_Swallowed(p) ==
    /\ req[p].pc = "reg_create"
    /\ req' = [req EXCEPT ![p].pc = "done", ![p].result = Return,
                 ![p].body = {[success |-> TRUE,
                               message |-> "User registered successfully",
                               user |-> [id |-> nextId, email |-> req[p].dto.email]]}]
    /\ UNCHANGED <<phase, config, users, nextId, now, issued, plain>>

\* register, lines 44-46: the insert rejects and no row is written; nothing
\* catches it.
RegisterCreateFails(p) ==
    /\ req[p].pc = "reg_create"
    /\ req' = [req EXCEPT ![p].pc = "done", ![p].result = StoreError]
    /\ UNCHANGED <<phase, config, users, nextId, now, issued, plain>>

\* login, line 58: the look-up rejects; nothing catches it.
LoginFindFails(p) ==
    /\ phase = "serving"
    /\ req[p].pc = "idle"
    /\ \E dto \in LoginDtos :
         req' = [req EXCEPT ![p] = [Idle EXCEPT !.op = "login", !.pc = "done",
                                      !.dto = dto, !.result = StoreError]]
    /\ UNCHANGED <<phase, config, users, nextId, now, issued, plain>>

\* login, line 63: bcrypt.compare rejects; nothing catches it.
LoginCompareFails(p) ==
    /\ req[p].pc = "login_compare"
    /\ req' = [req EXCEPT ![p].pc = "done", ![p].result = HasherError]
    /\ UNCHANGED <<phase, config, users, nextId, now, issued, plain>>

NextFault ==
    \/ Bootstrap
    \/ \E p \in Procs : RegisterFind(p)
    \/ \E p \in Procs : RegisterFindFails(p)
    \/ \E p \in Procs : RegisterHash(p)
    \/ \E p \in Procs : RegisterHashFails(p)
    \/ \E p \in Procs : RegisterCreate(p)
    \/ \E p \in Procs : RegisterCreateFails(p)
    \/ \E p \in Procs : LoginFind(p)
    \/ \E p \in Procs : LoginFindFails(p)
    \/ \E p \in Procs : LoginCompare(p)
    \/ \E p \in Procs : LoginCompareFails(p)
    \/ \E p \in Procs : LoginSign(p)
    \/ \E id \in 1..MaxId : remove(id)
    \/ \E p \in Procs : Respond(p)

\* Register and Login over a store and a hasher whose calls can fail.
SpecFault == Init /\ [][NextFault]_vars

(* ----------------------------- properties ----------------------------- *)
\* Request p takes the step that leaves position `from`.
Leaves(p, from) == req[p].pc = from /\ req'[p].pc # from
\* Request p starts operation op in this step.
Starts(p, op) == req[p].pc = "idle" /\ req'[p].op = op

\* C1: Register with an email that already has a record fails with the
\* DuplicateUser error (BadRequestException 'User already exists') and the step
\* changes nothing in the store, which holds exactly one record for the email.
C1_DuplicateRegisterRejected ==
    [][\A p \in Procs :
         (Starts(p, "register") /\ \E u \in users : u.email = req'[p].dto.email)
         => /\ req'[p].pc = "done"
            /\ req'[p].result = [type |-> "throw", exception |-> "BadRequestException",
                                 message |-> "User already exists"]
            /\ req'[p].body = {}
            /\ users' = users
            /\ nextId' = nextId
            /\ Cardinality({u \in users' : u.email = req'[p].dto.email}) = 1]_vars

\* A Register was refused as a duplicate while the record it collided with is
\* in the store.
C1_Witness ==
    \E p \in Procs :
        /\ req[p].op = "register" /\ req[p].pc = "done"
        /\ req[p].result.message = "User already exists"
        /\ \E u \in users : u.email = req[p].dto.email

\* A Login of request p has failed.
LoginFailed(p) ==
    req[p].op = "login" /\ req[p].pc = "done" /\ req[p].result.type = "throw"

\* C2: a Login that fails because the email has no record and a Login that
\* fails because the password is wrong answer with the same error, equal in
\* kind and in content.
C2_LoginErrorsIndistinguishable ==
    \A p, q \in Procs :
        (LoginFailed(p) /\ req[p].existingUser = {} /\
         LoginFailed(q) /\ req[q].existingUser # {})
        => /\ req[p].result = req[q].result
           /\ req[p].body = req[q].body
           /\ req[p].result.message = "Invalid credentials"

\* Both failures are on the table at once: one for an unknown email, one for
\* a wrong password.
C2_Witness ==
    \E p, q \in Procs :
        /\ LoginFailed(p) /\ req[p].existingUser = {}
        /\ LoginFailed(q) /\ req[q].existingUser # {}

InvalidCredentialsError ==
    [type |-> "throw", exception |-> "BadRequestException",
     message |-> "Invalid credentials"]

\* C3: Login issues a token only when a user with the given email exists and
\* the given password is the one that user registered with; the token carries
\* exactly that user's id as subject and that user's email, is signed with the
\* configured secret and expires after the configured time.  A Login with the
\* registered password reaches the signing step, one with another password
\* fails with InvalidCredentials and gets no token.
C3_LoginIssuesToken ==
    [][\A p \in Procs :
         /\ Starts(p, "login")
            => IF \E u \in users : u.email = req'[p].dto.email
               THEN /\ req'[p].pc = "login_compare"
                    /\ req'[p].existingUser = {u \in users : u.email = req'[p].dto.email}
               ELSE /\ req'[p].pc = "done"
                    /\ req'[p].result = InvalidCredentialsError
                    /\ req'[p].token = {} /\ req'[p].body = {}
         /\ Leaves(p, "login_compare")
            => \E u \in req[p].existingUser :
                 IF [Id |-> u.Id, password |-> req[p].dto.password] \in plain
                 THEN req'[p].pc = "login_sign"
                 ELSE /\ req'[p].pc = "done"
                      /\ req'[p].result = InvalidCredentialsError
                      /\ req'[p].token = {} /\ req'[p].body = {}
         /\ Leaves(p, "login_sign")
            => \E u \in req[p].existingUser :
                 LET t == [sub |-> u.Id, email |-> u.email, iat |-> now,
                           exp |-> now + config.JWT_EXPIRES_IN,
                           sig |-> config.JWT_SECRET]
                 IN /\ u.email = req[p].dto.email
                    /\ [Id |-> u.Id, password |-> req[p].dto.password] \in plain
                    /\ req'[p].pc = "done"
                    /\ req'[p].result.type = "return"
                    /\ req'[p].token = {t}
                    /\ req'[p].body = {[access_token |-> t]}
                    /\ issued' = issued \cup {[token |-> t, user |-> u.Id]}
         /\ issued' # issued => \E q \in Procs : Leaves(q, "login_sign")]_vars

\* A Login has returned a token for a registered user while another Login for
\* the same email, with another password, has failed.
C3_Witness ==
    \E p, q \in Procs :
        /\ req[p].op = "login" /\ req[p].pc = "done" /\ req[p].token # {}
        /\ LoginFailed(q) /\ req[q].existingUser # {}
        /\ req[q].dto.email = req[p].dto.email

\* C4: a successful Register adds exactly one record, with the given name and
\* email, the hashed password and the role 'user'; the other records stay as
\* they were; the acknowledgment holds the new id and email and nothing of the
\* password or its hash.
C4_RegisterAddsOneUser ==
    [][\A p \in Procs :
         (Leaves(p, "reg_create") /\ req'[p].result.type = "return")
         => \E u \in users' :
              /\ u \notin users
              /\ users' = users \cup {u}
              /\ \A v \in users : v.Id # u.Id
              /\ u.name = req[p].dto.name
              /\ u.email = req[p].dto.email
              /\ u.password = req[p].hashedPassword
              /\ u.password # req[p].dto.password
              /\ u.role = "user"
              /\ req'[p].body = {[success |-> TRUE,
                                  message |-> "User registered successfully",
                                  user |-> [id |-> u.Id, email |-> u.email]]}]_vars

\* A Register has succeeded next to a record that was there before it.
C4_Witness ==
    \E p \in Procs :
        /\ req[p].op = "register" /\ req[p].pc = "done"
        /\ req[p].result.type = "return"
        /\ \E u, v \in users :
             /\ u.email = req[p].dto.email
             /\ v.Id < u.Id
             /\ req[p].body = {[success |-> TRUE,
                                message |-> "User registered successfully",
                                user |-> [id |-> u.Id, email |-> u.email]]}

\* C5: a Register whose email has no record goes on to the insert, the insert
\* of an email that has no record succeeds, the password stored verifies
\* against the plaintext given, and no record holds a plaintext password.
C5_StoredHashVerifies ==
    [][/\ \A p \in Procs :
            /\ (Starts(p, "register") /\ ~\E u \in users : u.email = req'[p].dto.email)
               => req'[p].pc = "reg_hash"
            /\ (Leaves(p, "reg_create") /\ ~\E u \in users : u.email = req[p].dto.email)
               => /\ req'[p].result.type = "return"
                  /\ \E u \in users' \ users :
                       /\ u.email = req[p].dto.email
                       /\ validatePassword(req[p].dto.password, u.password)
                       /\ \A pw \in Passwords \ {req[p].dto.password} :
                            ~validatePassword(pw, u.password)
       /\ \A u \in users' : u.password \notin Passwords]_vars

\* A registered record is in the store and its password verifies against the
\* plaintext of the request that created it.
C5_Witness ==
    \E p \in Procs :
        /\ req[p].op = "register" /\ req[p].pc = "done"
        /\ req[p].result.type = "return"
        /\ \E u \in users :
             /\ u.email = req[p].dto.email
             /\ u.password = req[p].hashedPassword
             /\ [Id |-> u.Id, password |-> req[p].dto.password] \in plain
             /\ validatePassword(req[p].dto.password, u.password)

\* C6: no two records share an email, whatever the interleaving of the
\* requests; of two Registers for one email that both passed the look-up, at
\* most one inserts.
C6_EmailUnique ==
    \A u, v \in users : u.email = v.email => u = v

\* Two Registers for one email both passed the look-up; one inserted and the
\* other was rejected by the unique index.
C6_Witness ==
    \E p, q \in Procs :
        /\ req[p].op = "register" /\ req[p].pc = "done"
        /\ req[p].result.type = "return"
        /\ req[q].op = "register" /\ req[q].pc = "done"
        /\ req[q].result.exception = "PrismaClientKnownRequestError"
        /\ req[q].dto.email = req[p].dto.email
        /\ Cardinality({u \in users : u.email = req[p].dto.email}) = 1

\* The token request p presented.
Presented(p) == CHOOSE t \in req[p].token : TRUE

\* C7: a token Login issued, presented while it is unexpired, is accepted, and
\* while the user it was issued to is in the store ResolveIdentity returns an
\* identity with that user's id and email.
C7_TokenResolvesToItsUser ==
    [][\A p \in Procs :
         /\ (Starts(p, "route") /\ Presented(p)' \in Tokens /\ now < Presented(p)'.exp)
            => req'[p].pc = "validate"
         /\ Leaves(p, "validate")
            => \A i \in issued : \A u \in users :
                 (i.token = Presented(p) /\ u.Id = i.user)
                 => /\ req'[p].pc = "roles"
                    /\ \E id \in req'[p].user :
                         /\ req'[p].user = {id}
                         /\ id.userId = i.user
                         /\ id.email = u.email]_vars

\* ResolveIdentity has returned the identity of the user a token was issued to.
C7_Witness ==
    \E p \in Procs : \E i \in issued : \E u \in users :
        /\ req[p].op = "route" /\ req[p].user # {}
        /\ i.token = Presented(p) /\ u.Id = i.user
        /\ \E id \in req[p].user : id.userId = u.Id /\ id.email = u.email

\* C8: when the user a verified token names is no longer in the store,
\* ResolveIdentity fails with the error 'Unauthorized' and returns no identity.
C8_DeletedUserUnauthenticated ==
    [][\A p \in Procs :
         (Leaves(p, "validate") /\ ~\E u \in users : u.Id = Presented(p).sub)
         => /\ req'[p].pc = "done"
            /\ req'[p].result = [type |-> "throw", exception |-> "Error",
                                 message |-> "Unauthorized"]
            /\ req'[p].user = {}]_vars

\* ResolveIdentity has failed for an unexpired token whose user was registered
\* and then deleted.
C8_Witness ==
    \E p \in Procs :
        /\ req[p].op = "route" /\ req[p].pc = "done"
        /\ req[p].result.exception = "Error"
        /\ req[p].user = {}
        /\ Presented(p) \in Tokens
        /\ now < Presented(p).exp
        /\ \E r \in plain : r.Id = Presented(p).sub
        /\ ~\E u \in users : u.Id = Presented(p).sub

\* C9: a ResolveIdentity that starts when the token's expiry has been reached
\* fails with Unauthenticated and returns no identity, also when the user the
\* token names is in the store.
C9_ExpiredTokenRejected ==
    [][\A p \in Procs :
         (Starts(p, "route") /\ now >= Presented(p)'.exp)
         => /\ req'[p].pc = "done"
            /\ req'[p].result.type = "throw"
            /\ req'[p].result.message = "Unauthorized"
            /\ req'[p].user = {}]_vars

\* A genuine token was refused after its expiry while its user is in the store.
C9_Witness ==
    \E p \in Procs :
        /\ req[p].op = "route" /\ req[p].pc = "done"
        /\ req[p].result.exception = "UnauthorizedException"
        /\ Presented(p) \in Tokens
        /\ now >= Presented(p).exp
        /\ \E u \in users : u.Id = Presented(p).sub

\* The set of roles a handler requires: the roles of its @Roles list, none
\* when it has no @Roles.
RequiredRoles(roles) == {roles.list[i] : i \in 1..Len(roles.list)}

\* C10: the roles guard lets an identity through exactly when its role is one
\* of the required roles, and lets every identity through when no role is
\* required.
C10_AuthorizeIsMembership ==
    \A p \in Procs :
        (req[p].op = "route" /\ req[p].pc = "done" /\ req[p].user # {})
        => \A id \in req[p].user :
             (req[p].result.type = "return")
             <=> (RequiredRoles(req[p].roles) = {}
                  \/ id.role \in RequiredRoles(req[p].roles))

\* C10, for handlers that require at least one role or carry no @Roles at all.
C10_AuthorizeNonEmpty ==
    \A p \in Procs :
        (req[p].op = "route" /\ req[p].pc = "done" /\ req[p].user # {}
         /\ (req[p].roles.defined => req[p].roles.list # <<>>))
        => \A id \in req[p].user :
             (req[p].result.type = "return")
             <=> (~req[p].roles.defined
                  \/ id.role \in RequiredRoles(req[p].roles))

\* C11: with no JWT secret in the configuration the start-up fails for good and
\* nothing is served: no Register, Login or ResolveIdentity ever starts, the
\* store stays as it was, and no token is issued, so none is signed with an
\* absent secret.
C11_NoSecretNothingServed ==
    /\ config.JWT_SECRET \in {"undefined", ""}
       => /\ phase \in {"boot", "crashed"}
          /\ \A p \in Procs : req[p].pc = "idle" /\ req[p].op = "none"
          /\ users = {}
          /\ issued = {}
    /\ \A i \in issued : i.token.sig \notin {"undefined", ""}
    /\ phase = "serving" => config.JWT_SECRET \notin {"undefined", ""}

\* The constructor has thrown: the application is down with no secret set.
C11_Witness ==
    phase = "crashed" /\ config.JWT_SECRET = "undefined"

\* A body breaks a precondition of Register: empty name, malformed email, or a
\* password shorter than 7 or longer than 25 characters.
ViolatesPrecondition(dto) ==
    \/ Len(dto.name) = 0
    \/ dto.email \notin {"jane@x.com", "bob@x.com"}
    \/ Len(dto.password) < 7
    \/ Len(dto.password) > 25

\* C12: a Register body that breaks a precondition is rejected with a
\* validation error in the request's first step, whatever the store holds: the
\* look-up is not made (the answer is never 'User already exists'), the store is
\* not written, and no record ever carries such a body.  A body that breaks
\* none is not rejected by validation.
C12_InvalidInputRejectedFirst ==
    [][/\ \A p \in Procs :
            Starts(p, "register")
            => IF ViolatesPrecondition(req'[p].dto)
               THEN /\ req'[p].pc = "done"
                    /\ req'[p].result = [type |-> "throw",
                                         exception |-> "BadRequestException",
                                         message |-> "Bad Request"]
                    /\ req'[p].existingUser = {}
                    /\ req'[p].hashedPassword = ""
                    /\ users' = users
                    /\ nextId' = nextId
               ELSE req'[p].result.message # "Bad Request"
       /\ \A u \in users' :
            /\ Len(u.name) > 0
            /\ u.email \in {"jane@x.com", "bob@x.com"}
            /\ \A r \in plain' : r.Id = u.Id => Len(r.password) \in 7..25]_vars

\* A body with a registered email and a password of 26 characters, or an empty
\* name, has been rejected by validation while the record with that email is in
\* the store.
C12_Witness ==
    \E p \in Procs :
        /\ req[p].op = "register" /\ req[p].pc = "done"
        /\ req[p].result.message = "Bad Request"
        /\ ViolatesPrecondition(req[p].dto)
        /\ \E u \in users : u.email = req[p].dto.email

\* C13: the identity ResolveIdentity returns has the id, name, email and role
\* of the user's row as the store holds it when validate reads it, whatever
\* the email in the token and whatever the row held when the token was issued.
C13_IdentityFromStoreAtResolve ==
    [][\A p \in Procs :
         (Leaves(p, "validate") /\ req'[p].pc = "roles")
         => \E u \in users :
              /\ u.Id = Presented(p).sub
              /\ req'[p].user = {[userId |-> u.Id, name |-> u.name,
                                  email |-> u.email, role |-> u.role]}]_vars

\* One request holds the answer of Login with the row as it was then; the role
\* and the email of that row were changed since, and another request presenting
\* the same token has got an identity with the changed role and email.
C13_Witness ==
    \E p, q \in Procs : \E old \in req[q].existingUser :
        /\ req[q].op = "login" /\ req[q].pc = "done" /\ req[q].result.type = "return"
        /\ req[p].op = "route" /\ req[p].pc = "roles"
        /\ req[p].token = req[q].token
        /\ Presented(p).email = old.email
        /\ \E id \in req[p].user : \E u \in users :
             /\ id.userId = old.Id /\ u.Id = old.Id
             /\ id.role = u.role /\ id.email = u.email
             /\ id.role # old.role
             /\ id.email # old.email

\* C14: no step of a Login or of a ResolveIdentity, from the arrival of the
\* request to its answer and whatever the outcome, changes the set of rows, a
\* field of a row, or the id counter.
C14_LoginAndResolveReadOnly ==
    [][\A p \in Procs :
         (/\ req'[p] # req[p]
          /\ req[p].op \in {"login", "route"} \/ req'[p].op \in {"login", "route"})
         => /\ users' = users
            /\ nextId' = nextId]_vars

\* A Login has ended with 'Invalid credentials' and a ResolveIdentity with
\* Unauthenticated, after a Login that issued a token, with a row in the store.
C14_Witness ==
    \E p, q \in Procs :
        /\ req[p].op = "login" /\ req[p].pc = "done"
        /\ req[p].result.message = "Invalid credentials"
        /\ req[q].op = "route" /\ req[q].pc = "done"
        /\ req[q].result.type = "throw"
        /\ issued # {}
        /\ users # {}

\* C15: a Register or Login whose store or hasher call fails ends at once with
\* an error and is not resumed; a request that ends with an error has written
\* nothing and carries neither acknowledgment nor token; a step of a request
\* that writes the store is the one that ends it with success, and a Register
\* acknowledged as successful has inserted the row it names.
C15_FailureSurfacesNoPartialEffect ==
    [][\A p \in Procs :
         /\ (req[p].pc = "done" /\ req'[p] # req[p]) => req'[p] = Idle
         /\ (req'[p] # req[p] /\ req'[p].pc = "done" /\ req'[p].result.type = "throw")
            => /\ users' = users
               /\ issued' = issued
               /\ req'[p].body = {}
               /\ req'[p].token = {}
         /\ (req'[p] # req[p] /\ (users' # users \/ issued' # issued))
            => req'[p].pc = "done" /\ req'[p].result.type = "return"
         /\ (req'[p] # req[p] /\ req'[p].pc = "done" /\ req'[p].op = "register"
             /\ req'[p].result.type = "return")
            => \E b \in req'[p].body : \E u \in users' \ users :
                 u.Id = b.user.id /\ u.email = req'[p].dto.email]_vars

\* A Register whose insert failed and a Login whose compare failed have both
\* ended with the error, with the email of the failed Register not in the store.
C15_Witness ==
    \E p, q \in Procs :
        /\ req[p].op = "register" /\ req[p].pc = "done"
        /\ req[p].hashedPassword # ""
        /\ req[p].result.exception = "PrismaClientInitializationError"
        /\ ~\E u \in users : u.email = req[p].dto.email
        /\ req[q].op = "login" /\ req[q].pc = "done"
        /\ req[q].existingUser # {}
        /\ req[q].result.message = "bcrypt failed"

\* C16: an identity ResolveIdentity returns has the id of the user the token
\* was issued to, and that id belongs to one registration only: rows have
\* distinct ids, an inserted row gets an id no registration had before, and no
\* token or row holds an id that is still to be assigned.
C16_TokenNeverResolvesToAnotherUser ==
    [][/\ \A p \in Procs :
            (Leaves(p, "validate") /\ req'[p].pc = "roles")
            => \A i \in issued :
                 i.token = Presented(p)
                 => \A id \in req'[p].user : id.userId = i.user
       /\ \A u \in users' \ users :
            (\A v \in users : v.Id # u.Id)
            => /\ \A r \in plain : r.Id # u.Id
               /\ \A i \in issued : i.user # u.Id
       /\ \A u, v \in users' : u.Id = v.Id => u = v
       /\ \A u \in users' : u.Id < nextId'
       /\ \A i \in issued' : i.user < nextId' /\ i.token.sub = i.user]_vars

\* The user a token was issued to was deleted and the same email registered
\* again under a later id; ResolveIdentity with the unexpired token has failed.
C16_Witness ==
    \E p \in Procs : \E i \in issued : \E u \in users :
        /\ req[p].op = "route" /\ req[p].pc = "done"
        /\ req[p].result.message = "Unauthorized"
        /\ req[p].user = {}
        /\ i.token = Presented(p)
        /\ now < i.token.exp
        /\ ~\E v \in users : v.Id = i.user
        /\ u.email = i.token.email
        /\ u.Id > i.user
====
